---- MODULE Spec2Model ----
(***************************************************************************)
(* Model of scripts/extract_invoices.py: the text parsers                  *)
(* (parse_vehicle_fields, parse_invhdr, tofloat), the tree helpers         *)
(* (build_parent_map, find_ancestor_by_tag, find_field_value), the record  *)
(* builder (extract) over a report document tree, the aggregator           *)
(* (group_by_vehicle) and main with its writers; and of main of            *)
(* scripts/generate_all_reports.py up to its two charts.                   *)
(*                                                                         *)
(* Python str values are sequences of one-character strings.               *)
(***************************************************************************)
EXTENDS Integers, Sequences, FiniteSets, TLC

VARIABLES
  v_pc, v_in, v_out, v_rebuilt, v_out2,   \* parse_vehicle_fields and its re-parse
  h_pc, h_in, h_out,                      \* parse_invhdr
  f_pc, f_in, f_out,                      \* tofloat
  x_pc, doc, parent_map, inv_fields, x_i, rows,  \* extract
  g_pc, g_rows, g_i, groups, g_keys, g_out,      \* group_by_vehicle
  q_pc, q_group, q_name, q_out,                  \* find_field_value
  a_pc, a_elem, a_p, a_n, a_out,                 \* find_ancestor_by_tag
  openpyxl, files,                               \* the scripts' environment
  m_pc, m_args, m_rows, m_grouped,               \* extract_invoices.main
  r_pc, r_outdir, r_exc                          \* generate_all_reports.main

vehVars == <<v_pc, v_in, v_out, v_rebuilt, v_out2>>

hdrVars == <<h_pc, h_in, h_out>>

fltVars == <<f_pc, f_in, f_out>>

extVars == <<x_pc, doc, parent_map, inv_fields, x_i, rows>>

grpVars == <<g_pc, g_rows, g_i, groups, g_keys, g_out>>

ffvVars == <<q_pc, q_group, q_name, q_out>>

ancVars == <<a_pc, a_elem, a_p, a_n, a_out>>

envVars == <<openpyxl, files>>

mainVars == <<m_pc, m_args, m_rows, m_grouped>>

genVars == <<r_pc, r_outdir, r_exc>>

vars == <<vehVars, hdrVars, fltVars, extVars, grpVars, ffvVars, ancVars,
          envVars, mainVars, genVars>>

(***************************************************************************)
(* Bounds of the explored inputs.                                          *)
(***************************************************************************)
MaxVehTokens == 5

MaxHdrTokens == 4

MaxFloatLen == 4

MaxNodes == 5

MaxRows == 3

(***************************************************************************)
(* Each function is exercised by a specification of its own; the state of  *)
(* the other functions is idle meanwhile.                                  *)
(***************************************************************************)
EmptyStr == << >>

VehIdle ==
  /\ v_pc = "idle"
  /\ v_in = EmptyStr
  /\ v_out = << >>
  /\ v_rebuilt = EmptyStr
  /\ v_out2 = << >>

HdrIdle ==
  /\ h_pc = "idle"
  /\ h_in = EmptyStr
  /\ h_out = << >>

FltIdle ==
  /\ f_pc = "idle"
  /\ f_in = EmptyStr
  /\ f_out = << >>

ExtIdle ==
  /\ x_pc = "idle"
  /\ doc = << >>
  /\ parent_map = << >>
  /\ inv_fields = << >>
  /\ x_i = 0
  /\ rows = << >>

GrpIdle ==
  /\ g_pc = "idle"
  /\ g_rows = << >>
  /\ g_i = 0
  /\ groups = << >>
  /\ g_keys = << >>
  /\ g_out = << >>

FfvIdle ==
  /\ q_pc = "idle"
  /\ q_group = 0
  /\ q_name = ""
  /\ q_out = EmptyStr

AncIdle ==
  /\ a_pc = "idle"
  /\ a_elem = 0
  /\ a_p = 0
  /\ a_n = 0
  /\ a_out = 0

\* no script runs: no file written, no argument parsed
ScriptsIdle ==
  /\ openpyxl = FALSE
  /\ files = << >>
  /\ m_pc = "idle"
  /\ m_args = << >>
  /\ m_rows = << >>
  /\ m_grouped = << >>
  /\ r_pc = "idle"
  /\ r_outdir = 0
  /\ r_exc = "none"

(***************************************************************************)
(* str primitives                                                          *)
(***************************************************************************)
UpperAlpha == <<"A","B","C","D","E","F","G","H","I","J","K","L","M",
                "N","O","P","Q","R","S","T","U","V","W","X","Y","Z">>

LowerAlpha == <<"a","b","c","d","e","f","g","h","i","j","k","l","m",
                "n","o","p","q","r","s","t","u","v","w","x","y","z">>

Digits == {"0","1","2","3","4","5","6","7","8","9"}

\* str.isspace for one character
IsSpace(c) == c = " "

\* str.lower for one character
LowerChar(c) ==
  IF \E i \in 1..26 : UpperAlpha[i] = c
    THEN LowerAlpha[CHOOSE i \in 1..26 : UpperAlpha[i] = c]
    ELSE c

\* s.lower()
LowerStr(s) == [i \in 1..Len(s) |-> LowerChar(s[i])]

\* s.startswith(p)
StartsWith(s, p) == Len(s) >= Len(p) /\ SubSeq(s, 1, Len(p)) = p

\* s[n:]
DropPrefix(s, n) == SubSeq(s, n + 1, Len(s))

RECURSIVE LStrip(_)
LStrip(s) ==
  IF s # << >> /\ IsSpace(Head(s)) THEN LStrip(Tail(s)) ELSE s

RECURSIVE RStrip(_)
RStrip(s) ==
  IF s # << >> /\ IsSpace(s[Len(s)]) THEN RStrip(SubSeq(s, 1, Len(s) - 1)) ELSE s

\* s.strip()
Strip(s) == RStrip(LStrip(s))

\* s.replace(c, '')
RemoveChar(s, c) == SelectSeq(s, LAMBDA x : x # c)

\* s.isdigit(): non-empty and every character a digit
IsDigitStr(s) == s # << >> /\ \A i \in 1..Len(s) : s[i] \in Digits

\* s.split(c): always at least one part
RECURSIVE Split(_, _)
Split(s, c) ==
  IF \E i \in 1..Len(s) : s[i] = c
    THEN LET i == CHOOSE k \in 1..Len(s) : s[k] = c /\ \A j \in 1..(k - 1) : s[j] # c
         IN  <<SubSeq(s, 1, i - 1)>> \o Split(SubSeq(s, i + 1, Len(s)), c)
    ELSE <<s>>

RECURSIVE Flatten(_)
Flatten(ts) == IF ts = << >> THEN << >> ELSE Head(ts) \o Flatten(Tail(ts))

\* every concatenation of at most n tokens
Concats(tokens, n) ==
  { Flatten(ts) : ts \in UNION { [1..k -> tokens] : k \in 0..n } }

(***************************************************************************)
(* parse_invhdr                                                            *)
(***************************************************************************)
\* s[i] or a non-character past the end
CharAt(s, i) == IF i \in 1..Len(s) THEN s[i] ELSE "EOS"

\* the literal lit occurs in s at position i
LitAt(s, lit, i) ==
  i >= 1 /\ i + Len(lit) - 1 <= Len(s) /\ SubSeq(s, i, i + Len(lit) - 1) = lit

\* number of consecutive characters of s from position i that lie in cs
RECURSIVE RunLen(_, _, _)
RunLen(s, cs, i) ==
  IF CharAt(s, i) \in cs THEN 1 + RunLen(s, cs, i + 1) ELSE 0

\* position after an optional ':' at i
SkipColon(s, i) == IF CharAt(s, i) = ":" THEN i + 1 ELSE i

InvoiceLabel == <<"I","n","v","o","i","c","e">>

DateLabel == <<"D","a","t","e">>

PostedOnLabel == <<"P","o","s","t","e","d"," ","O","n">>

NoMatch == [matched |-> FALSE, group |-> EmptyStr]

\* match of (?:<label>:?\s*)(\d+) anchored at position i
InvoiceMatchAt(s, label, i) ==
  IF ~LitAt(s, label, i) THEN NoMatch
  ELSE LET j == SkipColon(s, i + Len(label))
           k == j + RunLen(s, {" "}, j)
           n == RunLen(s, Digits, k)
       IN  IF n >= 1 THEN [matched |-> TRUE, group |-> SubSeq(s, k, k + n - 1)]
                     ELSE NoMatch

\* re.search of (?:<label>:?\s*)(\d+): the leftmost match at or after i
RECURSIVE InvoiceSearchFrom(_, _, _)
InvoiceSearchFrom(s, label, i) ==
  IF i > Len(s) THEN NoMatch
  ELSE IF LitAt(s, label, i) /\ InvoiceMatchAt(s, label, i).matched
    THEN InvoiceMatchAt(s, label, i)
    ELSE InvoiceSearchFrom(s, label, i + 1)

InvoiceSearch(s, label) == InvoiceSearchFrom(s, label, 1)

\* length matched by \d{1,2} at i when a '/' must follow, 0 when it fails
OneOrTwoDigitsSlash(s, i) ==
  IF RunLen(s, Digits, i) >= 2 /\ CharAt(s, i + 2) = "/" THEN 2
  ELSE IF RunLen(s, Digits, i) >= 1 /\ CharAt(s, i + 1) = "/" THEN 1
  ELSE 0

\* match of (\d{1,2}/\d{1,2}/\d{2,4}) anchored at position i
DateTokenAt(s, i) ==
  LET a == OneOrTwoDigitsSlash(s, i)
      b == OneOrTwoDigitsSlash(s, i + a + 1)
      y == RunLen(s, Digits, i + a + 1 + b + 1)
      n == IF y > 4 THEN 4 ELSE y
  IN  IF a > 0 /\ b > 0 /\ y >= 2
        THEN [matched |-> TRUE, group |-> SubSeq(s, i, i + a + b + n + 1)]
        ELSE NoMatch

\* match of (?:Date:?|Posted On:?)[\s,]*(\d{1,2}/\d{1,2}/\d{2,4}) at i
DateMatchAt(s, i) ==
  LET after(label) ==
        LET j == SkipColon(s, i + Len(label))
        IN  DateTokenAt(s, j + RunLen(s, {" ", ","}, j))
  IN  IF LitAt(s, DateLabel, i) /\ after(DateLabel).matched
        THEN after(DateLabel)
      ELSE IF LitAt(s, PostedOnLabel, i) THEN after(PostedOnLabel)
      ELSE NoMatch

\* re.search of the date pattern: the leftmost match at or after i
RECURSIVE DateSearchFrom(_, _)
DateSearchFrom(s, i) ==
  IF i > Len(s) THEN NoMatch
  ELSE IF (LitAt(s, DateLabel, i) \/ LitAt(s, PostedOnLabel, i))
            /\ DateMatchAt(s, i).matched
    THEN DateMatchAt(s, i)
    ELSE DateSearchFrom(s, i + 1)

DateSearch(s) == DateSearchFrom(s, 1)

ParseInvhdr(inv_text) ==
  IF inv_text = EmptyStr
    THEN <<EmptyStr, EmptyStr>>
    ELSE <<InvoiceSearch(inv_text, InvoiceLabel).group, DateSearch(inv_text).group>>

\* 'Invoice: 4521 Date: 12/21/2025'
HdrExample ==
  <<"I","n","v","o","i","c","e",":"," ","4","5","2","1"," ",
    "D","a","t","e",":"," ","1","2","/","2","1","/","2","0","2","5">>

HdrTokens ==
  { InvoiceLabel, LowerStr(InvoiceLabel),
    <<"I","N","V","O","I","C","E">>,
    <<":">>, <<" ">>, <<"4","5">>, <<"x">>,
    <<" ","D","a","t","e",":"," ","1","/","2","/","2","5">>,
    <<" ","P","o","s","t","e","d"," ","O","n",",","1","2","/","2","1","/","2","0","2","5","6">> }

HdrInputs == Concats(HdrTokens, MaxHdrTokens) \cup {HdrExample}

HdrInit ==
  /\ h_pc = "call"
  /\ h_in \in HdrInputs
  /\ h_out = << >>
  /\ VehIdle
  /\ FltIdle
  /\ ExtIdle
  /\ GrpIdle
  /\ FfvIdle
  /\ AncIdle
  /\ ScriptsIdle

HdrParse ==
  /\ h_pc = "call"
  /\ h_out' = ParseInvhdr(h_in)
  /\ h_pc' = "parsed"
  /\ UNCHANGED <<h_in, vehVars, fltVars, extVars, grpVars, ffvVars, ancVars,
                 envVars, mainVars, genVars>>

HdrNext == HdrParse

SpecInvHdr == HdrInit /\ [][HdrNext]_vars

(***************************************************************************)
(* Claims about parse_invhdr                                               *)
(***************************************************************************)
\* C8: parse_invhdr returns as invoice number the first run of digits after
\* the label 'Invoice' matched in any letter case, with an optional colon and
\* whitespace between them, and the empty string when the label or the
\* digits are absent; 'Invoice: 4521 Date: 12/21/2025' gives
\* ('4521', '12/21/2025').
C8_InvoiceLabelAnyCase ==
  h_pc = "parsed" =>
    /\ h_out[1] = InvoiceSearch(LowerStr(h_in), LowerStr(InvoiceLabel)).group
    /\ h_in = HdrExample
          => h_out = <<SubSeq(HdrExample, 10, 13), SubSeq(HdrExample, 21, 30)>>

(***************************************************************************)
(* tofloat (the coercion local to extract) and Python's float()            *)
(*                                                                         *)
(* A float is the decimal m / 10^k with m not divisible by 10 unless k = 0 *)
(* (exact for the short decimal texts explored here).                      *)
(***************************************************************************)
DigitSeq == <<"0","1","2","3","4","5","6","7","8","9">>

DigitVal(c) == (CHOOSE i \in 1..10 : DigitSeq[i] = c) - 1

\* value of a string of digits ('' counts 0)
RECURSIVE DigitsVal(_)
DigitsVal(ds) ==
  IF ds = << >> THEN 0
  ELSE 10 * DigitsVal(SubSeq(ds, 1, Len(ds) - 1)) + DigitVal(ds[Len(ds)])

RECURSIVE Normalize(_, _)
Normalize(m, k) ==
  IF k > 0 /\ m % 10 = 0 THEN Normalize(m \div 10, k - 1) ELSE [m |-> m, k |-> k]

Zero == [m |-> 0, k |-> 0]

Returned(v) == [raised |-> FALSE, value |-> v]

Raised == [raised |-> TRUE, value |-> Zero]

\* float(text) for texts of digits, sign, point and other characters:
\* [sign] digits [. [digits]] or [sign] . digits, surrounding whitespace
\* ignored; anything else raises ValueError
PyFloat(text) ==
  LET s    == Strip(text)
      neg  == CharAt(s, 1) = "-"
      b    == IF CharAt(s, 1) \in {"+", "-"} THEN 2 ELSE 1
      ni   == RunLen(s, Digits, b)
      dot  == CharAt(s, b + ni) = "."
      nf   == IF dot THEN RunLen(s, Digits, b + ni + 1) ELSE 0
      end  == b + ni + (IF dot THEN 1 + nf ELSE 0)
      mag  == Normalize(DigitsVal(SubSeq(s, b, b + ni - 1) \o
                                  SubSeq(s, b + ni + 1, b + ni + nf)), nf)
  IN  IF end = Len(s) + 1 /\ ni + nf >= 1
        THEN Returned([m |-> IF neg THEN 0 - mag.m ELSE mag.m, k |-> mag.k])
        ELSE Raised

ToFloatNoExcept(s) ==
  IF s = EmptyStr THEN Returned(Zero)
  ELSE PyFloat(Strip(RemoveChar(s, ",")))

ToFloat(s) ==
  IF s = EmptyStr THEN Returned(Zero)
  ELSE LET r == PyFloat(Strip(RemoveChar(s, ",")))
       IN  IF r.raised THEN Returned(Zero) ELSE r

\* '$1,234'
FltDollar == <<"$","1",",","2","3","4">>

\* '(50)'
FltParen == <<"(","5","0",")">>

\* '1,234.50'
FltThousands == <<"1",",","2","3","4",".","5","0">>

FloatChars == {"0", "5", ".", "-", ",", "$", "(", ")", " ", "x"}

FloatInputs ==
  UNION { [1..n -> FloatChars] : n \in 0..MaxFloatLen }
    \cup {FltDollar, FltParen, FltThousands}

FltInit ==
  /\ f_pc = "call"
  /\ f_in \in FloatInputs
  /\ f_out = << >>
  /\ VehIdle
  /\ HdrIdle
  /\ ExtIdle
  /\ GrpIdle
  /\ FfvIdle
  /\ AncIdle
  /\ ScriptsIdle

FltCall ==
  /\ f_pc = "call"
  /\ f_out' = ToFloat(f_in)
  /\ f_pc' = "done"
  /\ UNCHANGED <<f_in, vehVars, hdrVars, extVars, grpVars, ffvVars, ancVars,
                 envVars, mainVars, genVars>>

FltNext == FltCall

SpecFloat == FltInit /\ [][FltNext]_vars

(***************************************************************************)
(* Claims about tofloat                                                    *)
(***************************************************************************)
Count(s, c) == Len(SelectSeq(s, LAMBDA x : x = c))

\* a plain decimal numeral: digits with at most one point, an optional
\* leading sign, thousands separators and surrounding blanks allowed
IsNumberText(text) ==
  LET t == Strip(RemoveChar(text, ","))
  IN  /\ \A i \in 1..Len(t) : t[i] \in Digits \cup {".", "+", "-"}
      /\ \A i \in 2..Len(t) : t[i] \notin {"+", "-"}
      /\ Count(t, ".") <= 1
      /\ \E i \in 1..Len(t) : t[i] \in Digits

\* C9: tofloat is total: for every text, the empty one included, it
\* returns a number and never raises, and for a text that is not a valid
\* number it returns exactly 0.0.
C9_ToFloatTotal ==
  f_pc = "done" =>
    /\ f_out.raised = FALSE
    /\ f_out.value.m \in Int /\ f_out.value.k \in Nat
    /\ ~IsNumberText(f_in) => f_out.value = Zero

\* a text float() rejects has been coerced to 0.0
C9_Witness ==
  /\ f_pc = "done"
  /\ f_in = <<"5", "x">>
  /\ PyFloat(f_in).raised
  /\ f_out = Returned(Zero)

\* C10: tofloat strips currency symbols, thousands separators and the
\* parentheses of a negative amount before converting: '$1,234' yields 1234
\* and '(50)' yields -50.
C10_CurrencyNotation ==
  f_pc = "done" =>
    /\ f_in = FltDollar => f_out.value = [m |-> 1234, k |-> 0]
    /\ f_in = FltParen => f_out.value = [m |-> 0 - 50, k |-> 0]

(***************************************************************************)
(* parse_vehicle_fields                                                    *)
(***************************************************************************)
VehicleLabel == <<"v","e","h","i","c","l","e",":">>

ParseVehicleFieldsNoDigitCheck(vehicle_str) ==
  LET s0    == Strip(vehicle_str)
      s     == IF StartsWith(LowerStr(s0), VehicleLabel)
                 THEN Strip(DropPrefix(s0, Len(VehicleLabel)))
                 ELSE s0
      raw   == Split(s, ",")
      parts == [i \in 1..Len(raw) |-> Strip(raw[i])]
      n     == Len(parts)
      truck == IF n > 0 THEN parts[1] ELSE EmptyStr
  IN  IF n >= 3
        THEN <<truck, parts[n - 1], parts[n]>>
        ELSE IF n = 2 THEN <<truck, parts[n], EmptyStr>>
                      ELSE <<truck, EmptyStr, EmptyStr>>

ParseVehicleFieldsNoTrim(vehicle_str) ==
  LET s0    == Strip(vehicle_str)
      s     == IF StartsWith(LowerStr(s0), VehicleLabel)
                 THEN Strip(DropPrefix(s0, Len(VehicleLabel)))
                 ELSE s0
      parts == Split(s, ",")
      n     == Len(parts)
      truck == IF n > 0 THEN parts[1] ELSE EmptyStr
  IN  IF n >= 3
        THEN IF IsDigitStr(RemoveChar(parts[n], " "))
               THEN <<truck, parts[n - 1], parts[n]>>
               ELSE <<truck, parts[n], EmptyStr>>
        ELSE IF n = 2 THEN <<truck, parts[n], EmptyStr>>
                      ELSE <<truck, EmptyStr, EmptyStr>>

ParseVehicleFields(vehicle_str) ==
  LET s0    == Strip(vehicle_str)
      s     == IF StartsWith(LowerStr(s0), VehicleLabel)
                 THEN Strip(DropPrefix(s0, Len(VehicleLabel)))
                 ELSE s0
      raw   == Split(s, ",")
      parts == [i \in 1..Len(raw) |-> Strip(raw[i])]
      n     == Len(parts)
      truck == IF n > 0 THEN parts[1] ELSE EmptyStr
  IN  IF n >= 3
        THEN IF IsDigitStr(RemoveChar(parts[n], " "))
               THEN <<truck, parts[n - 1], parts[n]>>
               ELSE <<truck, parts[n], EmptyStr>>
        ELSE IF n = 2 THEN <<truck, parts[n], EmptyStr>>
                      ELSE <<truck, EmptyStr, EmptyStr>>

\* 'Vehicle: Ford F150, ABC-123, 77'
VehExample3 ==
  <<"V","e","h","i","c","l","e",":"," ","F","o","r","d"," ","F","1","5","0",
    ","," ","A","B","C","-","1","2","3",","," ","7","7">>

\* 'Vehicle: Ford F150, ABC-123'
VehExample2 == SubSeq(VehExample3, 1, 27)

VehTokens ==
  { <<"V","e","h","i","c","l","e",":">>, VehicleLabel,
    <<"F">>, <<"A">>, <<",">>, <<" ">>, <<"7">> }

VehInputs == Concats(VehTokens, MaxVehTokens) \cup {VehExample3, VehExample2}

\* the caller-side rebuild 'truck, license[, unit]'
Rebuild(t) ==
  IF t[3] = EmptyStr
    THEN t[1] \o <<",", " ">> \o t[2]
    ELSE t[1] \o <<",", " ">> \o t[2] \o <<",", " ">> \o t[3]

VehInit ==
  /\ v_pc = "call"
  /\ v_in \in VehInputs
  /\ v_out = << >>
  /\ v_rebuilt = EmptyStr
  /\ v_out2 = << >>
  /\ HdrIdle
  /\ FltIdle
  /\ ExtIdle
  /\ GrpIdle
  /\ FfvIdle
  /\ AncIdle
  /\ ScriptsIdle

VehParse ==
  /\ v_pc = "call"
  /\ v_out' = ParseVehicleFields(v_in)
  /\ v_pc' = "parsed"
  /\ UNCHANGED <<v_in, v_rebuilt, v_out2, hdrVars, fltVars, extVars, grpVars, ffvVars, ancVars,
                 envVars, mainVars, genVars>>

VehReparse ==
  /\ v_pc = "parsed"
  /\ v_rebuilt' = Rebuild(v_out)
  /\ v_out2' = ParseVehicleFields(Rebuild(v_out))
  /\ v_pc' = "reparsed"
  /\ UNCHANGED <<v_in, v_out, hdrVars, fltVars, extVars, grpVars, ffvVars, ancVars,
                 envVars, mainVars, genVars>>

VehNext == VehParse \/ VehReparse

SpecVehicle == VehInit /\ [][VehNext]_vars

(***************************************************************************)
(* Claims about parse_vehicle_fields                                       *)
(***************************************************************************)
\* the descriptor after the optional label, cut at commas, each part trimmed
DescriptorParts(text) ==
  LET t    == Strip(text)
      body == IF StartsWith(LowerStr(t), VehicleLabel)
                THEN DropPrefix(t, Len(VehicleLabel))
                ELSE t
      cut  == Split(Strip(body), ",")
  IN  [i \in 1..Len(cut) |-> Strip(cut[i])]

OnlyDigitsIgnoringSpaces(p) ==
  /\ \A i \in 1..Len(p) : p[i] \in Digits \cup {" "}
  /\ \E i \in 1..Len(p) : p[i] \in Digits

FordF150 == SubSeq(VehExample3, 10, 18)

Abc123 == SubSeq(VehExample3, 21, 27)

\* C6: parse_vehicle_fields strips the label, splits on commas into trimmed
\* parts and returns (truck, license, unit): with 3 or more parts truck is
\* the first part and, if the last part is digits only (spaces ignored),
\* unit is the last part and license the one before it, otherwise license
\* is the last part and unit is empty; with 2 parts truck and license; with
\* fewer, truck only.  The two Ford F150 examples give the stated triples.
C6_VehicleGrammar ==
  v_pc # "call" =>
    LET p == DescriptorParts(v_in)
        n == Len(p)
    IN  /\ (n >= 3 /\ OnlyDigitsIgnoringSpaces(p[n]))
              => v_out = <<p[1], p[n - 1], p[n]>>
        /\ (n >= 3 /\ ~OnlyDigitsIgnoringSpaces(p[n]))
              => v_out = <<p[1], p[n], EmptyStr>>
        /\ n = 2 => v_out = <<p[1], p[2], EmptyStr>>
        /\ n = 1 => v_out = <<p[1], EmptyStr, EmptyStr>>
        /\ n = 0 => v_out = <<EmptyStr, EmptyStr, EmptyStr>>
        /\ v_in = VehExample3 => v_out = <<FordF150, Abc123, <<"7","7">> >>
        /\ v_in = VehExample2 => v_out = <<FordF150, Abc123, EmptyStr>>

\* a labelled descriptor of three parts with a numeric unit has been parsed
C6_Witness ==
  /\ v_pc = "parsed"
  /\ v_in = VehExample3
  /\ v_out[3] = <<"7","7">>

IsTwoOrThreePart(text) == Len(DescriptorParts(text)) \in {2, 3}

\* C7 as stated: for every 2- or 3-part descriptor, parsing the rebuilt
\* string 'truck, license[, unit]' returns the triple parsed first.
C7_IdempotentAnyDescriptor ==
  (v_pc = "reparsed" /\ IsTwoOrThreePart(v_in)) => v_out2 = v_out

\* C7 amended: for every 2- or 3-part descriptor whose parsed truck does not
\* itself begin with the label 'vehicle:' (in any letter case), parsing the
\* rebuilt string 'truck, license[, unit]' returns the triple parsed first.
C7_IdempotentUnlabelledTruck ==
  (/\ v_pc = "reparsed"
   /\ IsTwoOrThreePart(v_in)
   /\ ~StartsWith(LowerStr(v_out[1]), VehicleLabel)) => v_out2 = v_out

\* a three-part descriptor with a unit has been rebuilt and parsed again
C7_Witness ==
  /\ v_pc = "reparsed"
  /\ Len(DescriptorParts(v_in)) = 3
  /\ v_out[3] # EmptyStr
  /\ v_rebuilt = <<"F", ",", " ", "A", ",", " ", "7">>
  /\ v_out2 = v_out

(***************************************************************************)
(* The report document (xml.etree.ElementTree)                             *)
(*                                                                         *)
(* doc[i] is the i-th element in document order: its tag, and for a Field  *)
(* its FieldName attribute and the texts of its FormattedValue and Value   *)
(* children ('' when the child or its text is missing); kids lists the     *)
(* child elements in order.  Element 1 is the root.  None is 0.            *)
(***************************************************************************)
None == 0

InvHdrName == "{@InvHdr}"

VehicleName == "{@YmmEngLic}"

Container(tag) ==
  [tag |-> tag, name |-> "", fmt |-> EmptyStr, val |-> EmptyStr, kids |-> << >>]

Field(name, fmt, val) ==
  [tag |-> "Field", name |-> name, fmt |-> fmt, val |-> val, kids |-> << >>]

\* 'Invoice: 45 Date: 1/2/25'
HdrText ==
  <<"I","n","v","o","i","c","e",":"," ","4","5"," ",
    "D","a","t","e",":"," ","1","/","2","/","2","5">>

\* ' F, A, 7 '
VehText == <<" ","F",","," ","A",","," ","7"," ">>

\* the Field elements documents are drawn from
FieldLabels ==
  { Field(InvHdrName, HdrText, EmptyStr),
    Field(InvHdrName, EmptyStr, <<"x">>),
    Field(VehicleName, VehText, <<"B">>),
    Field("{@Total}", EmptyStr, <<"1","2">>) }

ContainerLabels == { Container("Group"), Container("Section") }

\* the elements on the path from e down through last children
RECURSIVE RightPath(_, _)
RightPath(d, e) ==
  IF d[e].kids = << >> THEN {e}
  ELSE {e} \cup RightPath(d, d[e].kids[Len(d[e].kids)])

\* d with one more element, the last child of p
AppendChild(d, p, elem) ==
  [i \in 1..(Len(d) + 1) |->
     IF i = Len(d) + 1 THEN elem
     ELSE IF i = p THEN [d[i] EXCEPT !.kids = Append(@, Len(d) + 1)]
     ELSE d[i]]

\* elem.iter(): the element, then its descendants, in document order
RECURSIVE Iter(_, _)
RECURSIVE IterAll(_, _)
Iter(d, e) == <<e>> \o IterAll(d, d[e].kids)

IterAll(d, es) ==
  IF es = << >> THEN << >> ELSE Iter(d, Head(es)) \o IterAll(d, Tail(es))

FindAllFieldsAmongChildren(d, e, name) ==
  SelectSeq(d[e].kids, LAMBDA x : d[x].tag = "Field" /\ d[x].name = name)

\* elem.findall('.//cr:Field[@FieldName="<name>"]')
FindAllFields(d, e, name) ==
  SelectSeq(Tail(Iter(d, e)), LAMBDA x : d[x].tag = "Field" /\ d[x].name = name)

\* elem.find('.//cr:Field[@FieldName="<name>"]')
FindField(d, e, name) ==
  LET found == FindAllFields(d, e, name)
  IN  IF found = << >> THEN None ELSE Head(found)

\* get_text(elem, 'FormattedValue') or get_text(elem, 'Value')
GetText(d, e, child) ==
  IF e = None THEN EmptyStr
  ELSE IF child = "FormattedValue" THEN Strip(d[e].fmt) ELSE Strip(d[e].val)

ValueOrFormatted(d, e) ==
  LET raw == GetText(d, e, "Value")
  IN  IF raw # EmptyStr THEN raw ELSE GetText(d, e, "FormattedValue")

FormattedOrValue(d, e) ==
  LET formatted == GetText(d, e, "FormattedValue")
  IN  IF formatted # EmptyStr THEN formatted ELSE GetText(d, e, "Value")

MapFirstChild(pm, p, cs) ==
  IF cs = << >> THEN pm
  ELSE [x \in DOMAIN pm \cup {Head(cs)} |-> IF x = Head(cs) THEN p ELSE pm[x]]

\* build_parent_map: one entry child -> parent per child of every element
RECURSIVE MapChildren(_, _, _)
MapChildren(pm, p, cs) ==
  IF cs = << >> THEN pm
  ELSE MapChildren([x \in DOMAIN pm \cup {Head(cs)} |->
                      IF x = Head(cs) THEN p ELSE pm[x]], p, Tail(cs))

MapRootOnly(d, pm, ps) ==
  IF ps = << >> THEN pm ELSE MapChildren(pm, Head(ps), d[Head(ps)].kids)

RECURSIVE MapElements(_, _, _)
MapElements(d, pm, ps) ==
  IF ps = << >> THEN pm
  ELSE MapElements(d, MapChildren(pm, Head(ps), d[Head(ps)].kids), Tail(ps))

BuildParentMap(d) == MapElements(d, << >>, Iter(d, 1))

\* parent_map.get(elem)
MapGet(pm, e) == IF e \in DOMAIN pm THEN pm[e] ELSE None

TagMatchesAny(t, tag) == TRUE

\* tag.endswith(tag)
TagEndsWith(t, tag) == t = tag

RECURSIVE ClimbToTag(_, _, _, _)
ClimbToTag(d, pm, p, tag) ==
  IF p = None THEN None
  ELSE IF TagEndsWith(d[p].tag, tag) THEN p
  ELSE ClimbToTag(d, pm, MapGet(pm, p), tag)

FindAncestorByTag(d, pm, e, tag) == ClimbToTag(d, pm, MapGet(pm, e), tag)

FindFieldValueInDocument(d, group_elem, field_name) ==
  LET f == FindField(d, 1, field_name)
  IN  IF f # None THEN FormattedOrValue(d, f) ELSE EmptyStr

FindFieldValue(d, group_elem, field_name) ==
  IF group_elem = None THEN EmptyStr
  ELSE LET f == FindField(d, group_elem, field_name)
       IN  IF f # None THEN FormattedOrValue(d, f) ELSE EmptyStr

(***************************************************************************)
(* extract                                                                 *)
(***************************************************************************)
VehicleLookupOwnGroupOnly(d, pm, g) ==
  IF g = None THEN EmptyStr
  ELSE LET v == FindField(d, g, VehicleName)
       IN  IF v # None THEN FormattedOrValue(d, v) ELSE EmptyStr

RECURSIVE VehicleLookupSkipsEmpty(_, _, _)
VehicleLookupSkipsEmpty(d, pm, g) ==
  IF g = None THEN EmptyStr
  ELSE LET v == FindField(d, g, VehicleName)
       IN  IF v # None /\ FormattedOrValue(d, v) # EmptyStr THEN FormattedOrValue(d, v)
           ELSE VehicleLookupSkipsEmpty(d, pm, FindAncestorByTag(d, pm, g, "Group"))

\* the loop that climbs Group ancestors until one holds a vehicle Field
RECURSIVE VehicleLookup(_, _, _)
VehicleLookup(d, pm, g) ==
  IF g = None THEN EmptyStr
  ELSE LET v == FindField(d, g, VehicleName)
       IN  IF v # None THEN FormattedOrValue(d, v)
           ELSE VehicleLookup(d, pm, FindAncestorByTag(d, pm, g, "Group"))

TotalNames ==
  { "{@PartsTotal}", "{@LaborTotal}", "{@DiscountTotal}", "{@HazMat}",
    "{@Supplies}", "{@TaxTotal}", "{@Total}" }

\* one of the seven tofloat calls for the header Field f lets an exception out
RowRaises(d, pm, f) ==
  LET invoice_group == FindAncestorByTag(d, pm, f, "Group")
  IN  \E name \in TotalNames :
        ToFloat(FindFieldValue(d, invoice_group, name)).raised

\* the record appended for the invoice header Field f
BuildRow(d, pm, f) ==
  LET hdr           == ParseInvhdr(FormattedOrValue(d, f))
      invoice_group == FindAncestorByTag(d, pm, f, "Group")
      vehicle       == VehicleLookup(d, pm, invoice_group)
      tlu           == ParseVehicleFields(vehicle)
      total(name)   == ToFloat(FindFieldValue(d, invoice_group, name)).value
  IN  [Invoice  |-> hdr[1],
       Date     |-> hdr[2],
       Truck    |-> tlu[1],
       License  |-> tlu[2],
       Unit     |-> tlu[3],
       Parts    |-> total("{@PartsTotal}"),
       Labor    |-> total("{@LaborTotal}"),
       Discount |-> total("{@DiscountTotal}"),
       HazMat   |-> total("{@HazMat}"),
       Supplies |-> total("{@Supplies}"),
       Tax      |-> total("{@TaxTotal}"),
       Total    |-> total("{@Total}"),
       Vehicle  |-> vehicle]

\* ET.parse has read the root element
ExtInit ==
  /\ x_pc = "parse"
  /\ doc \in { <<c>> : c \in ContainerLabels }
  /\ parent_map = << >>
  /\ inv_fields = << >>
  /\ x_i = 0
  /\ rows = << >>
  /\ VehIdle
  /\ HdrIdle
  /\ FltIdle
  /\ GrpIdle
  /\ FfvIdle
  /\ AncIdle
  /\ ScriptsIdle

\* ET.parse reads the next element of the file: a child of an element that
\* is still open; Fields hold no elements but their two text children
ExtRead ==
  /\ x_pc = "parse"
  /\ Len(doc) < MaxNodes
  /\ \E p \in { q \in RightPath(doc, 1) : doc[q].tag # "Field" },
        elem \in ContainerLabels \cup FieldLabels :
        doc' = AppendChild(doc, p, elem)
  /\ UNCHANGED <<x_pc, parent_map, inv_fields, x_i, rows, vehVars, hdrVars, fltVars, grpVars, ffvVars, ancVars,
                 envVars, mainVars, genVars>>

\* end of file: getroot, build_parent_map and the findall of the headers
ExtParse ==
  /\ x_pc = "parse"
  /\ parent_map' = BuildParentMap(doc)
  /\ inv_fields' = FindAllFields(doc, 1, InvHdrName)
  /\ x_i' = 1
  /\ x_pc' = "loop"
  /\ UNCHANGED <<doc, rows, vehVars, hdrVars, fltVars, grpVars, ffvVars, ancVars,
                 envVars, mainVars, genVars>>

\* one iteration of 'for f in inv_fields'; an exception leaving tofloat
\* would end extract without a return value
ExtRow ==
  /\ x_pc = "loop"
  /\ x_i <= Len(inv_fields)
  /\ IF RowRaises(doc, parent_map, inv_fields[x_i])
       THEN /\ x_pc' = "raised"
            /\ UNCHANGED <<rows, x_i>>
       ELSE /\ rows' = Append(rows, BuildRow(doc, parent_map, inv_fields[x_i]))
            /\ x_i' = x_i + 1
            /\ UNCHANGED x_pc
  /\ UNCHANGED <<doc, parent_map, inv_fields, vehVars, hdrVars, fltVars, grpVars, ffvVars, ancVars,
                 envVars, mainVars, genVars>>

\* 'return rows'
ExtReturn ==
  /\ x_pc = "loop"
  /\ x_i > Len(inv_fields)
  /\ x_pc' = "done"
  /\ UNCHANGED <<doc, parent_map, inv_fields, x_i, rows, vehVars, hdrVars, fltVars, grpVars, ffvVars, ancVars,
                 envVars, mainVars, genVars>>

ExtNext == ExtRead \/ ExtParse \/ ExtRow \/ ExtReturn

SpecExtract == ExtInit /\ [][ExtNext]_vars

(***************************************************************************)
(* Claims about extract, stated on the tree as a relation                  *)
(***************************************************************************)
Nodes == 1..Len(doc)

IsKid(p, c) == \E i \in 1..Len(doc[p].kids) : doc[p].kids[i] = c

\* the element that lists n among its children, None for the root
ParentOf(n) ==
  IF \E p \in Nodes : IsKid(p, n) THEN CHOOSE p \in Nodes : IsKid(p, n) ELSE None

\* the proper ancestors of n, nearest first
RECURSIVE PathUp(_)
PathUp(n) ==
  LET p == ParentOf(n)
  IN  IF p = None THEN << >> ELSE <<p>> \o PathUp(p)

\* the Group ancestors of n, nearest first
GroupPath(n) == SelectSeq(PathUp(n), LAMBDA a : doc[a].tag = "Group")

IsBelow(x, g) == LET up == PathUp(x) IN \E i \in 1..Len(up) : up[i] = g

\* the Fields called name in the subtree below g
FieldsBelow(g, name) ==
  { x \in Nodes : doc[x].tag = "Field" /\ doc[x].name = name /\ IsBelow(x, g) }

Headers == { n \in Nodes : doc[n].tag = "Field" /\ doc[n].name = InvHdrName }

\* the k-th invoice header in document order
HeaderAt(k) ==
  CHOOSE h \in Headers : Cardinality({ g \in Headers : g < h }) = k - 1

\* the display text of a Field: FormattedValue, else Value
TextOf(x) ==
  LET shown == Strip(doc[x].fmt) IN IF shown # EmptyStr THEN shown ELSE Strip(doc[x].val)

\* C1: extract returns exactly one record per invoice-header Field, in
\* document order, whether or not the header text parses, the header has an
\* enclosing Group, or any vehicle or financial Field exists.
C1_OneRecordPerHeader ==
  /\ x_pc = "loop" => Len(rows) = x_i - 1 /\ Len(rows) <= Cardinality(Headers)
  /\ x_pc = "done" => Len(rows) = Cardinality(Headers)
  /\ x_pc = "done" =>
       \A k \in 1..Len(rows) : rows[k].Invoice = ParseInvhdr(TextOf(HeaderAt(k)))[1]

\* two records returned: the first from an unparsable header outside any
\* Group, the second from a parsable one, in a document with no other Field
C1_Witness ==
  /\ x_pc = "done"
  /\ Len(rows) = 2
  /\ rows[1].Invoice = EmptyStr
  /\ rows[2].Invoice = <<"4", "5">>
  /\ GroupPath(HeaderAt(1)) = << >>
  /\ \A n \in Nodes : doc[n].tag = "Field" => n \in Headers

\* the header of record k has an own, a parent and a grandparent Group, and
\* of the three only the grandparent holds a vehicle Field
TwoLevelEscalation(k) ==
  LET gp == GroupPath(HeaderAt(k))
  IN  /\ Len(gp) >= 3
      /\ FieldsBelow(gp[1], VehicleName) = {}
      /\ FieldsBelow(gp[2], VehicleName) = {}
      /\ FieldsBelow(gp[3], VehicleName) # {}

\* C2: when neither the header's nearest Group nor the next Group ancestor
\* holds a vehicle Field but the grandparent Group does, the record's
\* Vehicle is the text of a vehicle Field in the grandparent's subtree.
C2_GrandparentVehicle ==
  x_pc = "done" =>
    \A k \in 1..Len(rows) :
      TwoLevelEscalation(k) =>
        \E v \in FieldsBelow(GroupPath(HeaderAt(k))[3], VehicleName) :
          rows[k].Vehicle = TextOf(v)

\* a record took a non-empty vehicle from its grandparent Group
C2_Witness ==
  /\ x_pc = "done"
  /\ Len(rows) = 1
  /\ TwoLevelEscalation(1)
  /\ rows[1].Vehicle = <<"F",","," ","A",","," ","7">>
  /\ rows[1].Unit = <<"7">>

FinancialColumns ==
  { <<"{@PartsTotal}", "Parts">>, <<"{@LaborTotal}", "Labor">>,
    <<"{@DiscountTotal}", "Discount">>, <<"{@HazMat}", "HazMat">>,
    <<"{@Supplies}", "Supplies">>, <<"{@TaxTotal}", "Tax">>,
    <<"{@Total}", "Total">> }

\* the Fields called name inside the nearest Group of header h
OwnGroupFields(h, name) ==
  IF GroupPath(h) = << >> THEN {} ELSE FieldsBelow(GroupPath(h)[1], name)

\* C3: a financial total only ever comes from a Field inside the header's
\* nearest Group: when the Fields of that name all lie outside it (in a
\* sibling Group or in a higher ancestor), the record's total is 0.0.
C3_FinancialScopedToOwnGroup ==
  x_pc = "done" =>
    \A k \in 1..Len(rows) : \A c \in FinancialColumns :
      rows[k][c[2]] = Zero
        \/ \E x \in OwnGroupFields(HeaderAt(k), c[1]) :
             rows[k][c[2]] = ToFloat(TextOf(x)).value

\* the only Total Field lies in a Group beside the header's own Group, and
\* the record's Total is 0.0
C3_Witness ==
  /\ x_pc = "done"
  /\ Len(rows) = 1
  /\ GroupPath(HeaderAt(1)) # << >>
  /\ \E x \in Nodes :
       /\ doc[x].tag = "Field" /\ doc[x].name = "{@Total}"
       /\ ToFloat(TextOf(x)).value = [m |-> 12, k |-> 0]
       /\ GroupPath(x) # << >>
       /\ \A i \in 1..Len(GroupPath(x)) : ~IsBelow(HeaderAt(1), GroupPath(x)[i])
  /\ rows[1].Total = Zero

(***************************************************************************)
(* group_by_vehicle                                                        *)
(***************************************************************************)
RECURSIVE Pow10(_)
Pow10(n) == IF n = 0 THEN 1 ELSE 10 * Pow10(n - 1)

\* A float of 2^53 and more in magnitude is h * 2^53 + m with h > 0 and m a
\* small whole number: [h |-> h, m |-> m, k |-> 0]; the other floats have no h
Hi(a) == IF "h" \in DOMAIN a THEN a.h ELSE 0

RECURSIVE Pow2(_)
Pow2(n) == IF n = 0 THEN 1 ELSE 2 * Pow2(n - 1)

RECURSIVE Log2(_)
Log2(h) == IF h <= 1 THEN 0 ELSE 1 + Log2(h \div 2)

\* the distance between neighbouring doubles at h * 2^53 + l
Ulp(h, l) ==
  LET e == Log2(h)
  IN  IF l < 0 /\ h = Pow2(e) THEN Pow2(e) ELSE Pow2(e + 1)

\* l rounded to a multiple of s, a tie to the even multiple
RoundHalfEven(l, s) ==
  LET q == l \div s
      r == l % s
  IN  IF 2 * r < s THEN q * s
      ELSE IF 2 * r > s THEN (q + 1) * s
      ELSE IF q % 2 = 0 THEN q * s ELSE (q + 1) * s

\* a + b on floats: exact on the decimals modelled below 2^53, rounded to
\* the nearest double, ties to even, from 2^53 on (whole numbers there)
FAdd(a, b) ==
  IF Hi(a) = 0 /\ Hi(b) = 0
    THEN LET k == IF a.k > b.k THEN a.k ELSE b.k
         IN  Normalize(a.m * Pow10(k - a.k) + b.m * Pow10(k - b.k), k)
    ELSE LET h == Hi(a) + Hi(b)
             l == a.m + b.m
         IN  [h |-> h, m |-> RoundHalfEven(l, Ulp(h, l)), k |-> 0]

Unknown == <<"U","n","k","n","o","w","n">>

\* the factory of the defaultdict
NewGroup ==
  [vehicle |-> EmptyStr, Unit |-> EmptyStr, quantity |-> 0,
   Parts |-> Zero, Labor |-> Zero, Discount |-> Zero, HazMat |-> Zero,
   Supplies |-> Zero, Tax |-> Zero, Total |-> Zero]

\* r.get('Vehicle') or '': a record may lack the key
GetVehicle(r) == IF "Vehicle" \in DOMAIN r THEN r.Vehicle ELSE EmptyStr

VehicleKeyUntrimmed(r) ==
  IF GetVehicle(r) = EmptyStr THEN Unknown ELSE GetVehicle(r)

\* (r.get('Vehicle') or '').strip() or 'Unknown'
VehicleKey(r) ==
  LET vehicle == Strip(GetVehicle(r))
  IN  IF vehicle = EmptyStr THEN Unknown ELSE vehicle

AccumulateTotalOverwritten(g, r) ==
  [vehicle  |-> VehicleKey(r),
   Unit     |-> Strip(r.Unit),
   quantity |-> g.quantity + 1,
   Parts    |-> FAdd(g.Parts, r.Parts),
   Labor    |-> FAdd(g.Labor, r.Labor),
   Discount |-> FAdd(g.Discount, r.Discount),
   HazMat   |-> FAdd(g.HazMat, r.HazMat),
   Supplies |-> FAdd(g.Supplies, r.Supplies),
   Tax      |-> FAdd(g.Tax, r.Tax),
   Total    |-> r.Total]

AccumulateCountReset(g, r) ==
  [vehicle  |-> VehicleKey(r),
   Unit     |-> Strip(r.Unit),
   quantity |-> 1,
   Parts    |-> FAdd(g.Parts, r.Parts),
   Labor    |-> FAdd(g.Labor, r.Labor),
   Discount |-> FAdd(g.Discount, r.Discount),
   HazMat   |-> FAdd(g.HazMat, r.HazMat),
   Supplies |-> FAdd(g.Supplies, r.Supplies),
   Tax      |-> FAdd(g.Tax, r.Tax),
   Total    |-> FAdd(g.Total, r.Total)]

AccumulateFirstUnit(g, r) ==
  [vehicle  |-> VehicleKey(r),
   Unit     |-> IF g.quantity = 0 THEN Strip(r.Unit) ELSE g.Unit,
   quantity |-> g.quantity + 1,
   Parts    |-> FAdd(g.Parts, r.Parts),
   Labor    |-> FAdd(g.Labor, r.Labor),
   Discount |-> FAdd(g.Discount, r.Discount),
   HazMat   |-> FAdd(g.HazMat, r.HazMat),
   Supplies |-> FAdd(g.Supplies, r.Supplies),
   Tax      |-> FAdd(g.Tax, r.Tax),
   Total    |-> FAdd(g.Total, r.Total)]

\* the body of 'for r in rows' on the group g of r's vehicle
Accumulate(g, r) ==
  [vehicle  |-> VehicleKey(r),
   Unit     |-> Strip(r.Unit),
   quantity |-> g.quantity + 1,
   Parts    |-> FAdd(g.Parts, r.Parts),
   Labor    |-> FAdd(g.Labor, r.Labor),
   Discount |-> FAdd(g.Discount, r.Discount),
   HazMat   |-> FAdd(g.HazMat, r.HazMat),
   Supplies |-> FAdd(g.Supplies, r.Supplies),
   Tax      |-> FAdd(g.Tax, r.Tax),
   Total    |-> FAdd(g.Total, r.Total)]

Amt(n) == [m |-> n, k |-> 0]

\* an invoice record with whole amounts
Record(vehicle, unit, a) ==
  [Invoice |-> EmptyStr, Date |-> EmptyStr, Truck |-> EmptyStr,
   License |-> EmptyStr, Unit |-> unit,
   Parts |-> Amt(a[1]), Labor |-> Amt(a[2]), Discount |-> Amt(a[3]),
   HazMat |-> Amt(a[4]), Supplies |-> Amt(a[5]), Tax |-> Amt(a[6]),
   Total |-> Amt(a[7]), Vehicle |-> vehicle]

\* the record r without the key 'Vehicle'
NoVehicle(r) == [key \in DOMAIN r \ {"Vehicle"} |-> r[key]]

\* the records the input lists are drawn from
RecordPool ==
  { Record(<<"A">>, <<"7">>, <<1, 2, 3, 4, 5, 6, 100>>),
    Record(<<" ", "A", " ">>, <<" ", "8">>, <<10, 20, 30, 40, 50, 60, 50>>),
    Record(<<"A">>, EmptyStr, <<0, 0, 0 - 3, 0, 0, 0, 0 - 3>>),
    Record(<<"B">>, <<"7">>, <<7, 6, 5, 4, 3, 2, 27>>),
    Record(<<"B">>, <<"9">>, <<0, 0, 0, 0, 0, 0, 0>>),
    Record(EmptyStr, EmptyStr, <<1, 1, 0, 0, 0, 1, 3>>),
    Record(<<" ">>, <<"7">>, <<0, 9, 0, 1, 0, 0, 10>>),
    Record(Unknown, <<"8">>, <<2, 0, 0 - 1, 0, 2, 0, 3>>),
    NoVehicle(Record(EmptyStr, <<"6">>, <<0, 0, 0, 0, 0, 5, 5>>)) }

GrpInit ==
  /\ g_pc = "loop"
  /\ g_rows \in UNION { [1..n -> RecordPool] : n \in 0..MaxRows }
  /\ g_i = 1
  /\ groups = << >>
  /\ g_keys = << >>
  /\ g_out = << >>
  /\ VehIdle
  /\ HdrIdle
  /\ FltIdle
  /\ ExtIdle
  /\ FfvIdle
  /\ AncIdle
  /\ ScriptsIdle

\* one iteration of 'for r in rows'; groups[vehicle] inserts a new group
\* at the end of the dict when the key is missing
GrpStep ==
  /\ g_pc = "loop"
  /\ g_i <= Len(g_rows)
  /\ LET r       == g_rows[g_i]
         vehicle == VehicleKey(r)
         g       == IF vehicle \in DOMAIN groups THEN groups[vehicle] ELSE NewGroup
     IN  /\ groups' = [key \in DOMAIN groups \cup {vehicle} |->
                         IF key = vehicle THEN Accumulate(g, r) ELSE groups[key]]
         /\ g_keys' = IF vehicle \in DOMAIN groups THEN g_keys
                                                   ELSE Append(g_keys, vehicle)
  /\ g_i' = g_i + 1
  /\ UNCHANGED <<g_pc, g_rows, g_out, vehVars, hdrVars, fltVars, extVars, ffvVars, ancVars,
                 envVars, mainVars, genVars>>

\* the returned list: one row per groups.values(), in insertion order
GrpReturn ==
  /\ g_pc = "loop"
  /\ g_i > Len(g_rows)
  /\ g_out' = [j \in 1..Len(g_keys) |-> groups[g_keys[j]]]
  /\ g_pc' = "done"
  /\ UNCHANGED <<g_rows, g_i, groups, g_keys, vehVars, hdrVars, fltVars, extVars, ffvVars, ancVars,
                 envVars, mainVars, genVars>>

GrpNext == GrpStep \/ GrpReturn

SpecGroup == GrpInit /\ [][GrpNext]_vars

(***************************************************************************)
(* Claims about group_by_vehicle                                           *)
(***************************************************************************)
AmountColumns == {"Parts", "Labor", "Discount", "HazMat", "Supplies", "Tax", "Total"}

\* the sum of the whole amounts of column c over the first n entries of rs
RECURSIVE ColumnSum(_, _, _)
ColumnSum(rs, c, n) ==
  IF n = 0 THEN 0 ELSE ColumnSum(rs, c, n - 1) + rs[n][c].m

RECURSIVE QuantitySum(_, _)
QuantitySum(rs, n) ==
  IF n = 0 THEN 0 ELSE QuantitySum(rs, n - 1) + rs[n].quantity

\* the groups built so far, as a list
GroupsSoFar == [j \in 1..Len(g_keys) |-> groups[g_keys[j]]]

\* C4: for each of the seven financial columns, the sum of the column over
\* the rows group_by_vehicle returns equals the sum of the column over the
\* input records (whole amounts).
C4_ColumnSumsPreserved ==
  g_pc = "done" =>
    \A c \in AmountColumns :
      /\ \A j \in 1..Len(g_out) : g_out[j][c].k = 0
      /\ ColumnSum(g_out, c, Len(g_out)) = ColumnSum(g_rows, c, Len(g_rows))

\* three records of two vehicles were merged into two rows
C4_Witness ==
  /\ g_pc = "done"
  /\ Len(g_rows) = 3
  /\ Len(g_out) = 2
  /\ g_out[1].Total = Amt(150)
  /\ g_out[2].Total = Amt(27)

\* C5: the counts of the returned rows add up to the number of input
\* records, and after each record the counts so far add up to the number
\* of records processed.
C5_CountsAddUp ==
  /\ g_pc = "loop" => QuantitySum(GroupsSoFar, Len(g_keys)) = g_i - 1
  /\ g_pc = "done" => QuantitySum(g_out, Len(g_out)) = Len(g_rows)

\* three records, two of them of one vehicle, have been counted
C5_Witness ==
  /\ g_pc = "done"
  /\ Len(g_rows) = 3
  /\ Len(g_out) = 2
  /\ g_out[1].quantity = 2
  /\ g_out[2].quantity = 1

(***************************************************************************)
(* find_field_value, called on its own                                     *)
(***************************************************************************)
\* the Fields of the documents searched: formatted and raw text, blank
\* formatted text, both texts blank, and a Field of another name
FfvLabels ==
  { Field("{@Total}", <<"1">>, <<"2">>),
    Field("{@Total}", <<" ">>, <<"3", " ">>),
    Field("{@Total}", EmptyStr, <<" ">>),
    Field("{@TaxTotal}", EmptyStr, <<"4">>) }

\* the field_name arguments; no Field is called {@PartsTotal}
FfvNames == { "{@Total}", "{@TaxTotal}", "{@PartsTotal}" }

FfvInit ==
  /\ q_pc = "input"
  /\ q_group = None
  /\ q_name = ""
  /\ q_out = EmptyStr
  /\ x_pc = "idle"
  /\ doc = << Container("Group") >>
  /\ parent_map = << >>
  /\ inv_fields = << >>
  /\ x_i = 0
  /\ rows = << >>
  /\ VehIdle
  /\ HdrIdle
  /\ FltIdle
  /\ GrpIdle
  /\ AncIdle
  /\ ScriptsIdle

\* the document the caller holds grows by one element
FfvRead ==
  /\ q_pc = "input"
  /\ Len(doc) < MaxNodes
  /\ \E p \in { e \in RightPath(doc, 1) : doc[e].tag # "Field" },
        elem \in { Container("Group") } \cup FfvLabels :
        doc' = AppendChild(doc, p, elem)
  /\ UNCHANGED <<x_pc, parent_map, inv_fields, x_i, rows, ffvVars,
                 vehVars, hdrVars, fltVars, grpVars, ancVars,
                 envVars, mainVars, genVars>>

\* find_field_value(group_elem, field_name), group_elem an element or None
FfvCall ==
  /\ q_pc = "input"
  /\ \E group_elem \in {None} \cup (1..Len(doc)), field_name \in FfvNames :
        /\ q_group' = group_elem
        /\ q_name' = field_name
        /\ q_out' = FindFieldValue(doc, group_elem, field_name)
  /\ q_pc' = "done"
  /\ UNCHANGED <<extVars, vehVars, hdrVars, fltVars, grpVars, ancVars,
                 envVars, mainVars, genVars>>

FfvNext == FfvRead \/ FfvCall

SpecFind == FfvInit /\ [][FfvNext]_vars

\* the Fields called q_name below the context group, None having none
Candidates == IF q_group = None THEN {} ELSE FieldsBelow(q_group, q_name)

\* the first of them in document order
FirstCandidate == CHOOSE x \in Candidates : \A y \in Candidates : x <= y

\* C11: find_field_value returns, for the first Field of the requested name
\* inside the context group, its FormattedValue text when that is non-empty
\* after trimming, otherwise its Value text (trimmed, possibly empty); it
\* returns the empty string when the group is None or holds no such Field.
C11_FormattedThenValue ==
  q_pc = "done" =>
    IF Candidates = {} THEN q_out = EmptyStr
    ELSE LET x == FirstCandidate
         IN  /\ Strip(doc[x].fmt) # EmptyStr => q_out = Strip(doc[x].fmt)
             /\ Strip(doc[x].fmt) = EmptyStr => q_out = Strip(doc[x].val)

\* the first {@Total} of the group has a blank FormattedValue, so its Value
\* was returned, although a later {@Total} has a FormattedValue
C11_Witness ==
  /\ q_pc = "done"
  /\ q_name = "{@Total}"
  /\ Cardinality(Candidates) >= 2
  /\ doc[FirstCandidate].fmt = <<" ">>
  /\ \E y \in Candidates : doc[y].fmt = <<"1">>
  /\ q_out = <<"3">>

(***************************************************************************)
(* More claims about group_by_vehicle                                      *)
(***************************************************************************)
\* the grouping key of an input record, as the contract words it
KeyOf(r) ==
  IF "Vehicle" \notin DOMAIN r THEN Unknown
  ELSE IF Strip(r.Vehicle) = EmptyStr THEN Unknown
  ELSE Strip(r.Vehicle)

\* the positions of the input records whose key is key
RecordsOf(key) == { n \in 1..Len(g_rows) : KeyOf(g_rows[n]) = key }

\* C12: group_by_vehicle returns exactly one row per distinct key, the key
\* being the trimmed Vehicle of a record, or 'Unknown' when that is empty or
\* missing; the count of a row is the number of records with its key, and
\* two records of one vehicle with totals 100 and 50 give one row with
\* quantity 2 and Total 150.
C12_OneRowPerKey ==
  g_pc = "done" =>
    /\ \A i, j \in 1..Len(g_out) : g_out[i].vehicle = g_out[j].vehicle => i = j
    /\ { g_out[j].vehicle : j \in 1..Len(g_out) }
         = { KeyOf(g_rows[n]) : n \in 1..Len(g_rows) }
    /\ \A j \in 1..Len(g_out) :
         g_out[j].quantity = Cardinality(RecordsOf(g_out[j].vehicle))
    /\ ( /\ Len(g_rows) = 2
         /\ KeyOf(g_rows[1]) = KeyOf(g_rows[2])
         /\ g_rows[1].Total = Amt(100)
         /\ g_rows[2].Total = Amt(50) )
       => /\ Len(g_out) = 1
          /\ g_out[1].quantity = 2
          /\ g_out[1].Total = Amt(150)

\* the scenario of the two records, the second with spaces around its
\* vehicle, and a record without a Vehicle counted under 'Unknown'
C12_Witness ==
  /\ g_pc = "done"
  /\ Len(g_rows) = 3
  /\ g_rows[1].Total = Amt(100)
  /\ g_rows[2].Total = Amt(50)
  /\ g_rows[2].Vehicle = <<" ", "A", " ">>
  /\ "Vehicle" \notin DOMAIN g_rows[3]
  /\ Len(g_out) = 2
  /\ g_out[1].vehicle = <<"A">> /\ g_out[1].quantity = 2 /\ g_out[1].Total = Amt(150)
  /\ g_out[2].vehicle = Unknown /\ g_out[2].quantity = 1

(***************************************************************************)
(* extract on documents with missing and malformed sub-fields              *)
(***************************************************************************)
NoVehicleText == Field(VehicleName, EmptyStr, EmptyStr)

BadTotal == Field("{@Total}", <<"a">>, <<"5">>)

GoodTotal == Field("{@Total}", EmptyStr, <<"1", "2">>)

\* a parsable and an unparsable header, a vehicle Field without text and
\* one with text, a total that is no number and one that is
DegradedLabels ==
  { Field(InvHdrName, HdrText, EmptyStr),
    Field(InvHdrName, EmptyStr, <<"x">>),
    NoVehicleText,
    Field(VehicleName, VehText, <<"B">>),
    BadTotal,
    GoodTotal }

\* ET.parse reads the next element of such a file
ExtReadDegraded ==
  /\ x_pc = "parse"
  /\ Len(doc) < MaxNodes
  /\ \E p \in { q \in RightPath(doc, 1) : doc[q].tag # "Field" },
        elem \in { Container("Group") } \cup DegradedLabels :
        doc' = AppendChild(doc, p, elem)
  /\ UNCHANGED <<x_pc, parent_map, inv_fields, x_i, rows,
                 vehVars, hdrVars, fltVars, grpVars, ffvVars, ancVars,
                 envVars, mainVars, genVars>>

ExtNextDegraded == ExtReadDegraded \/ ExtParse \/ ExtRow \/ ExtReturn

SpecExtractDegraded == ExtInit /\ [][ExtNextDegraded]_vars

\* the first Field called name in the nearest Group of header h, or None
FirstOwn(h, name) ==
  LET own == OwnGroupFields(h, name)
  IN  IF own = {} THEN None ELSE CHOOSE x \in own : \A y \in own : x <= y

\* no Group ancestor of h, if it has any, holds a vehicle Field
NoVehicleAbove(h) ==
  LET gp == GroupPath(h)
  IN  \A i \in 1..Len(gp) : FieldsBelow(gp[i], VehicleName) = {}

\* C13: extract never aborts on a missing or malformed sub-field: every
\* header yields its record; in it an unparsable header text empties Invoice
\* and Date only, a missing Group or vehicle Field empties Vehicle, Truck,
\* License and Unit only, and an absent or non-numeric total zeroes that
\* total only, while the sub-fields that are present keep their values.
C13_DefaultsNeverAbort ==
  /\ x_pc # "raised"
  /\ x_pc = "done" =>
       /\ Len(rows) = Cardinality(Headers)
       /\ \A k \in 1..Len(rows) :
            LET h == HeaderAt(k)
                v == FirstOwn(h, VehicleName)
                t == FirstOwn(h, "{@Total}")
            IN  /\ TextOf(h) = <<"x">> =>
                     rows[k].Invoice = EmptyStr /\ rows[k].Date = EmptyStr
                /\ TextOf(h) = HdrText =>
                     /\ rows[k].Invoice = <<"4", "5">>
                     /\ rows[k].Date = <<"1", "/", "2", "/", "2", "5">>
                /\ NoVehicleAbove(h) =>
                     /\ rows[k].Vehicle = EmptyStr
                     /\ rows[k].Truck = EmptyStr
                     /\ rows[k].License = EmptyStr
                     /\ rows[k].Unit = EmptyStr
                /\ (v # None /\ doc[v] # NoVehicleText) =>
                     /\ rows[k].Vehicle = <<"F", ",", " ", "A", ",", " ", "7">>
                     /\ rows[k].Unit = <<"7">>
                /\ (t = None \/ doc[t] = BadTotal) => rows[k].Total = Zero
                /\ (t # None /\ doc[t] = GoodTotal) => rows[k].Total = [m |-> 12, k |-> 0]
                /\ \A c \in FinancialColumns :
                     c[1] # "{@Total}" => rows[k][c[2]] = Zero

\* two records of one Group whose total is no number: the first from an
\* unparsable header, without invoice number but with the vehicle; the
\* second with its invoice number
C13_Witness ==
  /\ x_pc = "done"
  /\ Len(rows) = 2
  /\ TextOf(HeaderAt(1)) = <<"x">>
  /\ FirstOwn(HeaderAt(1), "{@Total}") # None
  /\ doc[FirstOwn(HeaderAt(1), "{@Total}")] = BadTotal
  /\ rows[1].Invoice = EmptyStr
  /\ rows[1].Unit = <<"7">>
  /\ rows[1].Total = Zero
  /\ rows[2].Invoice = <<"4", "5">>

(***************************************************************************)
(* build_parent_map and find_ancestor_by_tag, the loop taken step by step  *)
(***************************************************************************)
\* the elements of the trees climbed: two container tags and a leaf
TreeLabels == ContainerLabels \cup { Field(InvHdrName, EmptyStr, EmptyStr) }

AncInit ==
  /\ a_pc = "read"
  /\ a_elem = None
  /\ a_p = None
  /\ a_n = 0
  /\ a_out = None
  /\ x_pc = "idle"
  /\ doc \in { <<c>> : c \in ContainerLabels }
  /\ parent_map = << >>
  /\ inv_fields = << >>
  /\ x_i = 0
  /\ rows = << >>
  /\ VehIdle
  /\ HdrIdle
  /\ FltIdle
  /\ GrpIdle
  /\ FfvIdle
  /\ ScriptsIdle

\* the tree grows by one element
AncRead ==
  /\ a_pc = "read"
  /\ Len(doc) < MaxNodes
  /\ \E p \in { q \in RightPath(doc, 1) : doc[q].tag # "Field" },
        elem \in TreeLabels :
        doc' = AppendChild(doc, p, elem)
  /\ UNCHANGED <<x_pc, parent_map, inv_fields, x_i, rows, ancVars,
                 vehVars, hdrVars, fltVars, grpVars, ffvVars,
                 envVars, mainVars, genVars>>

\* parent_map = build_parent_map(root)
AncIndex ==
  /\ a_pc = "read"
  /\ parent_map' = BuildParentMap(doc)
  /\ a_pc' = "indexed"
  /\ UNCHANGED <<x_pc, doc, inv_fields, x_i, rows, a_elem, a_p, a_n, a_out,
                 vehVars, hdrVars, fltVars, grpVars, ffvVars,
                 envVars, mainVars, genVars>>

\* find_ancestor_by_tag(elem, parent_map, 'Group'): p = parent_map.get(elem)
AncCall ==
  /\ a_pc = "indexed"
  /\ \E elem \in 1..Len(doc) :
        /\ a_elem' = elem
        /\ a_p' = MapGet(parent_map, elem)
  /\ a_n' = 0
  /\ a_pc' = "climb"
  /\ UNCHANGED <<a_out, extVars, vehVars, hdrVars, fltVars, grpVars, ffvVars,
                 envVars, mainVars, genVars>>

\* one pass of the while loop that does not return: p = parent_map.get(p)
AncClimb ==
  /\ a_pc = "climb"
  /\ a_p # None
  /\ ~TagEndsWith(doc[a_p].tag, "Group")
  /\ a_p' = MapGet(parent_map, a_p)
  /\ a_n' = a_n + 1
  /\ UNCHANGED <<a_pc, a_elem, a_out, extVars, vehVars, hdrVars, fltVars, grpVars, ffvVars,
                 envVars, mainVars, genVars>>

\* 'return p' inside the loop, 'return None' after it
AncReturn ==
  /\ a_pc = "climb"
  /\ IF a_p = None THEN TRUE ELSE TagEndsWith(doc[a_p].tag, "Group")
  /\ a_out' = a_p
  /\ a_pc' = "done"
  /\ UNCHANGED <<a_elem, a_p, a_n, extVars, vehVars, hdrVars, fltVars, grpVars, ffvVars,
                 envVars, mainVars, genVars>>

AncNext == AncRead \/ AncIndex \/ AncCall \/ AncClimb \/ AncReturn

SpecAncestor == AncInit /\ [][AncNext]_vars

\* C14: find_ancestor_by_tag terminates on every node of an indexed tree:
\* the loop has passed at most as many times as the node has proper
\* ancestors and can always pass or return; it returns the nearest proper
\* ancestor tagged Group, never the node itself or a farther Group, and
\* None when no ancestor is tagged Group.
C14_NearestGroupAncestor ==
  /\ a_pc = "climb" =>
       LET up == PathUp(a_elem)
       IN  /\ a_n <= Len(up)
           /\ a_p = IF a_n = Len(up) THEN None ELSE up[a_n + 1]
           /\ \A i \in 1..a_n : doc[up[i]].tag # "Group"
  /\ a_pc = "done" =>
       LET gp == GroupPath(a_elem)
       IN  /\ a_out # a_elem
           /\ a_out = IF gp = << >> THEN None ELSE gp[1]
           /\ a_out = FindAncestorByTag(doc, parent_map, a_elem, "Group")

\* the call on a node below a Section below two Groups returned the nearer
\* Group, passing the Section
C14_Witness ==
  /\ a_pc = "done"
  /\ Len(GroupPath(a_elem)) = 2
  /\ doc[ParentOf(a_elem)].tag = "Section"
  /\ a_n = 1
  /\ a_out = GroupPath(a_elem)[1]
  /\ a_out # GroupPath(a_elem)[2]

\* C15: after build_parent_map the root has no entry, and every other node
\* of the tree has one entry, whose value is the node's parent in the tree.
C15_ParentMapMatchesTree ==
  a_pc # "read" =>
    /\ 1 \notin DOMAIN parent_map
    /\ DOMAIN parent_map = Nodes \ {1}
    /\ \A n \in DOMAIN parent_map : IsKid(parent_map[n], n)
    /\ \A n \in DOMAIN parent_map : \A p \in Nodes : IsKid(p, n) => parent_map[n] = p

\* a tree of four levels with two children under one element was indexed
C15_Witness ==
  /\ a_pc = "indexed"
  /\ Len(doc) = MaxNodes
  /\ \E n \in Nodes : Len(PathUp(n)) = 3
  /\ \E p \in Nodes : Len(doc[p].kids) = 2
  /\ Cardinality(DOMAIN parent_map) = MaxNodes - 1

(***************************************************************************)
(* extract_invoices.main: extract, write_xlsx, group_by_vehicle,           *)
(* write_group_xlsx                                                        *)
(***************************************************************************)
\* the characters of the texts sorted, in code point order
CodePoints ==
  <<" ", ",", "/">> \o DigitSeq \o <<":">> \o UpperAlpha \o LowerAlpha

Ord(c) == CHOOSE i \in 1..Len(CodePoints) : CodePoints[i] = c

\* a < b on str
RECURSIVE StrLess(_, _)
StrLess(a, b) ==
  IF b = << >> THEN FALSE
  ELSE IF a = << >> THEN TRUE
  ELSE IF Ord(Head(a)) # Ord(Head(b)) THEN Ord(Head(a)) < Ord(Head(b))
  ELSE StrLess(Tail(a), Tail(b))

\* date.min
DateMin == 10101

\* datetime.strptime(datestr, '%m/%d/%Y') on days up to the 28th: the date
\* as the number yyyymmdd, None for ValueError
Strptime(datestr) ==
  LET p == Split(datestr, "/")
  IN  IF /\ Len(p) = 3
         /\ IsDigitStr(p[1]) /\ Len(p[1]) <= 2 /\ DigitsVal(p[1]) \in 1..12
         /\ IsDigitStr(p[2]) /\ Len(p[2]) <= 2 /\ DigitsVal(p[2]) \in 1..28
         /\ IsDigitStr(p[3]) /\ Len(p[3]) = 4 /\ DigitsVal(p[3]) >= 1
        THEN DigitsVal(p[3]) * 10000 + DigitsVal(p[1]) * 100 + DigitsVal(p[2])
        ELSE None

\* _parse_date_key on texts without '-': the date, else date.min
ParseDateKey(datestr) ==
  IF Strptime(datestr) = None THEN DateMin ELSE Strptime(datestr)

\* the position of the first digit of s from i on, 0 when there is none
RECURSIVE FirstDigit(_, _)
FirstDigit(s, i) ==
  IF i > Len(s) THEN 0 ELSE IF s[i] \in Digits THEN i ELSE FirstDigit(s, i + 1)

\* _parse_invoice_key: the first run of digits as a number, else 0
ParseInvoiceKey(inv) ==
  LET i == FirstDigit(inv, 1)
  IN  IF i = 0 THEN 0 ELSE DigitsVal(SubSeq(inv, i, i + RunLen(inv, Digits, i) - 1))

\* the sort key of write_xlsx compared: vehicle, then date, then invoice
RowLess(r1, r2) ==
  LET v1 == LowerStr(GetVehicle(r1))
      v2 == LowerStr(GetVehicle(r2))
      d1 == ParseDateKey(r1.Date)
      d2 == ParseDateKey(r2.Date)
  IN  IF v1 # v2 THEN StrLess(v1, v2)
      ELSE IF d1 # d2 THEN d1 < d2
      ELSE ParseInvoiceKey(r1.Invoice) < ParseInvoiceKey(r2.Invoice)

\* rows.sort(key=...): stable
RECURSIVE InsertRow(_, _)
InsertRow(sorted, r) ==
  IF sorted = << >> THEN <<r>>
  ELSE IF RowLess(r, Head(sorted)) THEN <<r>> \o sorted
  ELSE <<Head(sorted)>> \o InsertRow(Tail(sorted), r)

RECURSIVE SortRows(_)
SortRows(rs) ==
  IF rs = << >> THEN << >>
  ELSE InsertRow(SortRows(SubSeq(rs, 1, Len(rs) - 1)), rs[Len(rs)])

\* a < b on the floats without a part beyond 2^53
FLess(a, b) == a.m * Pow10(b.k) < b.m * Pow10(a.k)

\* sorted(groups, key=Total, reverse=True): stable
RECURSIVE InsertGroup(_, _)
InsertGroup(sorted, g) ==
  IF sorted = << >> THEN <<g>>
  ELSE IF FLess(Head(sorted).Total, g.Total) THEN <<g>> \o sorted
  ELSE <<Head(sorted)>> \o InsertGroup(Tail(sorted), g)

RECURSIVE SortGroups(_)
SortGroups(gs) ==
  IF gs = << >> THEN << >>
  ELSE InsertGroup(SortGroups(SubSeq(gs, 1, Len(gs) - 1)), gs[Len(gs)])

\* group_by_vehicle as a function of its argument: the loop over the rows
\* from the first on, then the list of the groups in insertion order
RECURSIVE GroupLoop(_, _, _)
GroupLoop(gs, keys, rs) ==
  IF rs = << >> THEN [j \in 1..Len(keys) |-> gs[keys[j]]]
  ELSE LET r       == Head(rs)
           vehicle == VehicleKey(r)
           g       == IF vehicle \in DOMAIN gs THEN gs[vehicle] ELSE NewGroup
       IN  GroupLoop([key \in DOMAIN gs \cup {vehicle} |->
                        IF key = vehicle THEN Accumulate(g, r) ELSE gs[key]],
                     IF vehicle \in DOMAIN gs THEN keys ELSE Append(keys, vehicle),
                     Tail(rs))

GroupByVehicle(rs) == GroupLoop(<< >>, << >>, rs)

\* the file system after path has been written with content
Written(fs, path, content) ==
  [f \in DOMAIN fs \cup {path} |-> IF f = path THEN content ELSE fs[f]]

\* a path is a directory and a name; the working directory
Cwd == 0

InvoicesXlsx == <<Cwd, "invoices.xlsx">>

GroupedXlsx == <<Cwd, "grouped_by_truck.xlsx">>

InvoicesCsv == <<Cwd, "invoices.csv">>

\* a record of extract with an invoice number and a date
Invoice(vehicle, number, date, total) ==
  [Record(vehicle, <<"7">>, <<1, 2, 0, 0, 0, 0, total>>)
     EXCEPT !.Invoice = number, !.Date = date]

\* the records extract may return to main
MainPool ==
  { Invoice(<<"B">>, <<"4", "5">>, <<"1", "/", "2", "/", "2", "0", "2", "5">>, 5),
    Invoice(<<"a">>, <<"7">>, <<"3", "/", "1", "/", "2", "0", "2", "4">>, 7),
    Invoice(<<"B">>, <<"7">>, <<"1", "/", "2", "/", "2", "5">>, 1),
    Invoice(EmptyStr, EmptyStr, EmptyStr, 0) }

\* the command lines: --xlsx and --group-xlsx at their defaults
MainArgs ==
  { [xlsx |-> InvoicesXlsx, group |-> b, group_xlsx |-> GroupedXlsx] : b \in BOOLEAN }

MainInit ==
  /\ m_pc = "extract"
  /\ m_args \in MainArgs
  /\ m_rows = << >>
  /\ m_grouped = << >>
  /\ openpyxl \in BOOLEAN
  /\ files = << >>
  /\ r_pc = "idle"
  /\ r_outdir = 0
  /\ r_exc = "none"
  /\ VehIdle
  /\ HdrIdle
  /\ FltIdle
  /\ ExtIdle
  /\ GrpIdle
  /\ FfvIdle
  /\ AncIdle

\* rows = extract(args.xml), the XML file being well-formed
MainExtract ==
  /\ m_pc = "extract"
  /\ m_rows' \in UNION { [1..n -> MainPool] : n \in 0..MaxRows }
  /\ m_pc' = "write_xlsx"
  /\ UNCHANGED <<m_args, m_grouped, envVars, genVars,
                 vehVars, hdrVars, fltVars, extVars, grpVars, ffvVars, ancVars>>

\* write_xlsx(rows, args.xlsx): without openpyxl nothing is written; with
\* it the rows are sorted in place and saved
MainWriteXlsx ==
  /\ m_pc = "write_xlsx"
  /\ IF openpyxl
       THEN /\ m_rows' = SortRows(m_rows)
            /\ files' = Written(files, m_args.xlsx, SortRows(m_rows))
       ELSE UNCHANGED <<m_rows, files>>
  /\ m_pc' = IF m_args.group THEN "group" ELSE "done"
  /\ UNCHANGED <<openpyxl, m_args, m_grouped, genVars,
                 vehVars, hdrVars, fltVars, extVars, grpVars, ffvVars, ancVars>>

\* grouped = group_by_vehicle(rows); write_group_xlsx(grouped, args.group_xlsx)
MainGroup ==
  /\ m_pc = "group"
  /\ m_grouped' = GroupByVehicle(m_rows)
  /\ files' = IF openpyxl
                THEN Written(files, m_args.group_xlsx, SortGroups(GroupByVehicle(m_rows)))
                ELSE files
  /\ m_pc' = "done"
  /\ UNCHANGED <<openpyxl, m_args, m_rows, genVars,
                 vehVars, hdrVars, fltVars, extVars, grpVars, ffvVars, ancVars>>

MainNext == MainExtract \/ MainWriteXlsx \/ MainGroup

SpecMain == MainInit /\ [][MainNext]_vars

\* C16: every run of main that completes has written the invoices CSV,
\* and the XLSX file too when openpyxl is installed.
C16_CsvAlwaysWritten ==
  m_pc = "done" =>
    /\ InvoicesCsv \in DOMAIN files
    /\ openpyxl => m_args.xlsx \in DOMAIN files

(***************************************************************************)
(* generate_all_reports.main, up to the two charts of the whole data       *)
(***************************************************************************)
\* the names the module extract_invoices defines
ExtractInvoicesNames ==
  { "get_text", "build_parent_map", "parse_vehicle_fields", "parse_invhdr",
    "find_ancestor_by_tag", "find_field_value", "extract", "_parse_date_key",
    "_parse_invoice_key", "write_csv", "write_xlsx", "main",
    "group_by_vehicle", "write_group_csv", "write_group_xlsx" }

\* the folder 'unknown_date'; a dated folder is the number yyyymmdd
UnknownDate == 1

RECURSIVE MaxDate(_)
MaxDate(rs) ==
  IF rs = << >> THEN None
  ELSE LET d    == Strptime(Strip(Head(rs).Date))
           rest == MaxDate(Tail(rs))
       IN  IF d # None /\ d > rest THEN d ELSE rest

\* get_last_invoice_date(xlsx_path): None without openpyxl or without a date
GetLastInvoiceDate(fs, xlsx_path) ==
  IF ~openpyxl THEN None ELSE MaxDate(fs[xlsx_path])

\* shutil.move(src, dst) on an existing file
Moved(fs, src, dst) ==
  [f \in (DOMAIN fs \ {src}) \cup {dst} |-> IF f = dst THEN fs[src] ELSE fs[f]]

GenInit ==
  /\ r_pc = "extract"
  /\ r_outdir = Cwd
  /\ r_exc = "none"
  /\ m_pc = "extract"
  /\ m_args = [xlsx |-> InvoicesXlsx, group |-> TRUE, group_xlsx |-> GroupedXlsx]
  /\ m_rows = << >>
  /\ m_grouped = << >>
  /\ openpyxl \in BOOLEAN
  /\ files = << >>
  /\ VehIdle
  /\ HdrIdle
  /\ FltIdle
  /\ ExtIdle
  /\ GrpIdle
  /\ FfvIdle
  /\ AncIdle

\* the statement at r_pc moves on to pc with the files fs
Goto(pc, fs) ==
  /\ r_pc' = pc
  /\ files' = fs
  /\ UNCHANGED <<r_outdir, r_exc, mainVars>>

\* the statement at r_pc raises exc, which ends main
Raise(exc) ==
  /\ r_exc' = exc
  /\ UNCHANGED <<r_pc, r_outdir, files, mainVars>>

\* step 2: the output folder from the last invoice date
LastDate(pc) ==
  LET last_date == GetLastInvoiceDate(files, InvoicesXlsx)
  IN  /\ r_outdir' = IF last_date = None THEN UnknownDate ELSE last_date
      /\ r_pc' = pc
      /\ UNCHANGED <<r_exc, files, mainVars>>

\* step 3: the two XLSX files move into the output folder
MoveXlsx(pc) ==
  IF InvoicesXlsx \notin DOMAIN files \/ GroupedXlsx \notin DOMAIN files
    THEN Raise("FileNotFoundError")
    ELSE Goto(pc, Moved(Moved(files, InvoicesXlsx, <<r_outdir, "invoices.xlsx">>),
                        GroupedXlsx, <<r_outdir, "grouped_by_truck.xlsx">>))

\* run([... script, xlsx, '--out', png]): the chart is drawn from the file
RunPlot(pc, xlsx, png) ==
  IF <<r_outdir, xlsx>> \notin DOMAIN files
    THEN Raise("SystemExit")
    ELSE Goto(pc, Written(files, <<r_outdir, png>>, files[<<r_outdir, xlsx>>]))

\* the subprocess of step 1 is started again
RunExtractAgain(pc) ==
  /\ m_pc' = "extract"
  /\ m_rows' = << >>
  /\ m_grouped' = << >>
  /\ r_pc' = pc
  /\ UNCHANGED <<m_args, r_outdir, r_exc, files>>

\* the statements of main in order; the subprocess of step 1 is the model
\* of extract_invoices.main, whose end 'run' waits for
GenStep ==
  /\ r_exc = "none"
  /\ CASE r_pc = "extract" ->
            m_pc = "done" /\ Goto("last_date", files)
       [] r_pc = "last_date" -> LastDate("move")
       [] r_pc = "move" -> MoveXlsx("owner")
       [] r_pc = "owner" ->
            IF ~openpyxl THEN Raise("ImportError")
            ELSE IF "group_by_owner" \notin ExtractInvoicesNames
                    \/ "write_group_owner_xlsx" \notin ExtractInvoicesNames
              THEN Raise("AttributeError")
              ELSE Goto("plot_owners",
                        Written(files, <<r_outdir, "grouped_by_owner.xlsx">>,
                                files[<<r_outdir, "invoices.xlsx">>]))
       [] r_pc = "plot_owners" ->
            RunPlot("extract_again", "grouped_by_owner.xlsx", "grouped_owners.png")
       [] r_pc = "extract_again" -> RunExtractAgain("wait_again")
       [] r_pc = "wait_again" ->
            m_pc = "done" /\ Goto("last_date_again", files)
       [] r_pc = "last_date_again" -> LastDate("move_again")
       [] r_pc = "move_again" -> MoveXlsx("bar_chart")
       [] r_pc = "bar_chart" ->
            RunPlot("pie_chart", "grouped_by_truck.xlsx", "grouped_totals.png")
       [] r_pc = "pie_chart" ->
            RunPlot("monthly", "grouped_by_truck.xlsx", "labor_vs_parts_pie.png")
       [] OTHER -> FALSE
  /\ UNCHANGED <<openpyxl, vehVars, hdrVars, fltVars, extVars, grpVars, ffvVars, ancVars>>

GenNext == MainExtract \/ MainWriteXlsx \/ MainGroup \/ GenStep

SpecReports == GenInit /\ [][GenNext]_vars

\* the statements between the move of the XLSX files and the end of the
\* two chart steps
MoveToCharts ==
  { "owner", "plot_owners", "extract_again", "wait_again", "last_date_again",
    "move_again", "bar_chart", "pie_chart" }

\* C17: once the extraction step has succeeded and the XLSX files have
\* been moved into the output folder, main does not abort before it has
\* completed the steps that draw grouped_totals.png and
\* labor_vs_parts_pie.png.
C17_ChartsReached ==
  r_exc # "none" => r_pc \notin MoveToCharts

(***************************************************************************)
(* group_by_vehicle and the order of its input                             *)
(***************************************************************************)
\* 2^53 as a float
TwoTo53 == [h |-> 1, m |-> 0, k |-> 0]

\* records of two vehicles with different units; one total is 2^53
OrderPool ==
  { [Record(<<"A">>, <<"7">>, <<1, 2, 3, 4, 5, 6, 0>>) EXCEPT !.Total = TwoTo53],
    Record(<<"A">>, <<" ", "8">>, <<10, 20, 30, 40, 50, 60, 1>>),
    Record(<<"A", " ">>, <<"9">>, <<0, 1, 0, 1, 0, 1, 3>>),
    Record(<<"B">>, <<"7">>, <<7, 6, 5, 4, 3, 2, 27>>) }

GrpOrderInit ==
  /\ g_pc = "loop"
  /\ g_rows \in UNION { [1..n -> OrderPool] : n \in 0..MaxRows }
  /\ g_i = 1
  /\ groups = << >>
  /\ g_keys = << >>
  /\ g_out = << >>
  /\ VehIdle
  /\ HdrIdle
  /\ FltIdle
  /\ ExtIdle
  /\ FfvIdle
  /\ AncIdle
  /\ ScriptsIdle

SpecGroupOrder == GrpOrderInit /\ [][GrpNext]_vars

\* the input list in every order
Reorderings ==
  LET n == Len(g_rows)
  IN  { [i \in 1..n |-> g_rows[p[i]]] :
          p \in { q \in [1..n -> 1..n] : \A i, j \in 1..n : q[i] = q[j] => i = j } }

\* the row of the key in a list of rows
RowOf(out, key) == out[CHOOSE j \in 1..Len(out) : out[j].vehicle = key]

KeysOf(out) == { out[j].vehicle : j \in 1..Len(out) }

\* the last input record with the key
LastOf(key) ==
  g_rows[CHOOSE n \in RecordsOf(key) : \A m \in RecordsOf(key) : m <= n]

UnitIsOfLastRecord ==
  \A j \in 1..Len(g_out) : g_out[j].Unit = Strip(LastOf(g_out[j].vehicle).Unit)

SameCounts(out) ==
  /\ KeysOf(out) = KeysOf(g_out)
  /\ \A key \in KeysOf(g_out) : RowOf(out, key).quantity = RowOf(g_out, key).quantity

SameSums(out) ==
  \A key \in KeysOf(g_out) : \A c \in AmountColumns :
    RowOf(out, key)[c] = RowOf(g_out, key)[c]

\* no amount of the input reaches 2^53
AllExact == \A n \in 1..Len(g_rows) : \A c \in AmountColumns : Hi(g_rows[n][c]) = 0

RECURSIVE FirstWithVehicle(_)
FirstWithVehicle(gp) ==
  IF gp = << >> THEN None
  ELSE IF FieldsBelow(Head(gp), VehicleName) # {} THEN Head(gp)
  ELSE FirstWithVehicle(Tail(gp))

\* the first Field called name below g in document order
FirstBelow(g, name) ==
  LET fs == FieldsBelow(g, name) IN CHOOSE x \in fs : \A y \in fs : x <= y

\* C19: the vehicle escalation stops at the nearest Group ancestor whose
\* subtree holds a vehicle Field, whatever that Field's text: the record's
\* Vehicle is the text of the first such Field there, and it is empty when
\* that Field has no text, even if a higher Group holds one with text.
C19_EscalationStopsAtEmptyField ==
  x_pc = "done" =>
    \A k \in 1..Len(rows) :
      LET g == FirstWithVehicle(GroupPath(HeaderAt(k)))
      IN  g # None =>
            /\ rows[k].Vehicle = TextOf(FirstBelow(g, VehicleName))
            /\ doc[FirstBelow(g, VehicleName)] = NoVehicleText =>
                 /\ rows[k].Vehicle = EmptyStr
                 /\ rows[k].Truck = EmptyStr
                 /\ rows[k].License = EmptyStr
                 /\ rows[k].Unit = EmptyStr

\* the header's own Group holds a vehicle Field without text, the Group
\* above it one with text, and the record's Vehicle is empty
C19_Witness ==
  /\ x_pc = "done"
  /\ Len(rows) = 1
  /\ Len(GroupPath(HeaderAt(1))) = 2
  /\ FieldsBelow(GroupPath(HeaderAt(1))[1], VehicleName) # {}
  /\ \A v \in FieldsBelow(GroupPath(HeaderAt(1))[1], VehicleName) : doc[v] = NoVehicleText
  /\ \E v \in FieldsBelow(GroupPath(HeaderAt(1))[2], VehicleName) : TextOf(v) # EmptyStr
  /\ rows[1].Vehicle = EmptyStr

\* the columns every lookup of which starts at the header's nearest Group
GroupColumns ==
  { "Vehicle", "Truck", "License", "Unit",
    "Parts", "Labor", "Discount", "HazMat", "Supplies", "Tax", "Total" }

\* C20: two headers with the same nearest enclosing Group give records
\* with the same Vehicle (and its parts) and the same seven totals, wherever
\* the headers stand inside the Group: the Total is that of the first
\* {@Total} Field of the Group's subtree, nested Groups included.
C20_SameGroupSameValues ==
  x_pc = "done" =>
    \A k1, k2 \in 1..Len(rows) :
      LET p1 == GroupPath(HeaderAt(k1))
          p2 == GroupPath(HeaderAt(k2))
      IN  (p1 # << >> /\ p2 # << >> /\ p1[1] = p2[1]) =>
            /\ \A c \in GroupColumns : rows[k1][c] = rows[k2][c]
            /\ FieldsBelow(p1[1], "{@Total}") # {} =>
                 rows[k1].Total = IF doc[FirstBelow(p1[1], "{@Total}")] = GoodTotal
                                    THEN [m |-> 12, k |-> 0] ELSE Zero

\* two headers of one Group, the numeric total in a nested Group between
\* them: both records carry it
C20_Witness ==
  /\ x_pc = "done"
  /\ Len(rows) = 2
  /\ GroupPath(HeaderAt(1)) # << >>
  /\ GroupPath(HeaderAt(1)) = GroupPath(HeaderAt(2))
  /\ \E x \in FieldsBelow(GroupPath(HeaderAt(1))[1], "{@Total}") :
       /\ HeaderAt(1) < x /\ x < HeaderAt(2)
       /\ GroupPath(x)[1] # GroupPath(HeaderAt(1))[1]
  /\ rows[1].Total = [m |-> 12, k |-> 0]
  /\ rows[2].Total = [m |-> 12, k |-> 0]

====
